---------------------------- MODULE Spec2Model ----------------------------
(***************************************************************************)
(* Daily trade counter of the 247 Terminal backend guide and the widget    *)
(* that shows it.                                                          *)
(*                                                                         *)
(*   trade_stats.record_trade      INCR of today's bucket, EXPIRE on 1     *)
(*   trade_stats.get_trade_count   MGET of `days` buckets, total + daily   *)
(*   trade_stats.get_widget_stats  MGET of 30 buckets, 7d and 30d sums     *)
(*   create_trade                  trade.save() then record_trade, not     *)
(*                                 awaited, errors to the log              *)
(*                                                                         *)
(* Time is the UTC clock in whole seconds since 1970-01-01T00:00:00Z (the  *)
(* code's Date holds milliseconds; EXPIRE takes seconds).  A date key      *)
(* "YYYY-MM-DD" is the tuple <<year, month, day>>.  A string of decimal    *)
(* digits is the sequence of its digits; null and "" are <<>>.             *)
(***************************************************************************)
EXTENDS Integers, Sequences, FiniteSets, TLC

VARIABLES
    now,        \* the UTC clock, seconds since the epoch
    store,      \* Redis: key -> [val, exp, born, sets, creator]; an absent key is not
                \* in DOMAIN store.  val is the integer held, exp is <<>> (no TTL) or
                \* <<the instant the key expires>>; born (the instant of creation), sets
                \* (EXPIREs executed on it) and creator (the call whose INCR created
                \* it, 0 for none of this run) are bookkeeping for the properties
    trades,     \* MongoDB: the persisted trades, set of [id, ts]
    ct_pc,    \* create_trade call p: "idle", "saving", "saved", "returned", "thrown"
    ct_result,  \* what create_trade call p gave its caller: "none", "saved_trade", "error"
    rt_pc,      \* record_trade call of p: "none", "connect", "incr", "expire", "done", "failed"
    rt_key,     \* the key record_trade of p built, <<>> before it is built
    rt_count,   \* the value INCR returned to record_trade of p, 0 before
    rt_calls,   \* how many times create_trade call p has invoked record_trade
    log,        \* logger.error entries: set of [op, p]
    rd_pc,      \* the read in progress: "idle", "connect", "mget", "done", "failed"
    rd_op,      \* "widget" (get_widget_stats) or "count" (get_trade_count)
    rd_days,    \* the `days` argument of get_trade_count (30 for the widget)
    rd_keys,    \* the keys the read built
    rd_date_map,\* get_trade_count's date_map: key -> date key
    rd_result,  \* what the read returned
    rd_seen,    \* what the clock was when the read built its keys (start), and what
                \* the clock and the store were when MGET was executed
    rd_prev,    \* the get_widget_stats call that returned last: what it returned and saw
    req,        \* the GET /stats/trades request being handled: [pc, client, res, reads,
                \* logs]; reads counts its get_widget_stats calls, logs holds what
                \* logger.error was called with for it
    hits,       \* public_rate_limit: client -> (instant -> requests counted at it)
    bf,         \* the backfill script: [pc, start_date, results, today, index, written]
    trades7d,   \* LiveStats state trades7d: <<>> (null) or <<number>>
    trades30d,  \* LiveStats state trades30d: <<>> (null) or <<number>>
    polls,      \* LiveStats: the fetchStats calls made, in order: <<[pc, body], ...>>
    mounted,    \* LiveStats: the component is mounted
    ac          \* AnimatedCounter: [rendered, value, count, hasAnimated, prevValue,
                \* observer, anims, changes]; observer is what the IntersectionObserver
                \* callback closed over, anims the animations with a frame requested

vars == <<now, store, trades, ct_pc, ct_result, rt_pc, rt_key, rt_count, rt_calls, log,
          rd_pc, rd_op, rd_days, rd_keys, rd_date_map, rd_result, rd_seen, rd_prev,
          req, hits, bf, trades7d, trades30d, polls, mounted, ac>>

----------------------------------------------------------------------------
(* Bounds of the exploration *)

\* create_trade calls in one run
MaxTrades == 2
\* the clock stops this many days after the start
MaxDays == 36
\* buckets in the store a read starts from
MaxBuckets == 2
\* requests of the second client counted in one window
MaxOtherRequests == 1

\* the steps the clock is advanced by, in days
AdvanceDays == {29, 35}
\* the `days` arguments of get_trade_count
CountDays == {1, 2, 7}
\* where the buckets of a store a read starts from lie, in days before the start
StoreOffsets == {0, 1, 6, 7, 29, 30, 34}
\* what they hold
BucketValues == {1, 12}

(* Program constants *)

KEY_PREFIX == "trade:daily_count"
\* TTL_SECONDS with one factor 60 left out: 35 days' worth of minutes
TTL_MINUTES == 35 * 24 * 60
TTL_SECONDS == 35 * 24 * 60 * 60
WidgetDays == 30
WeekDays == 7
SecondsPerDay == 24 * 60 * 60

\* the run starts at 2025-12-16T23:59:59Z
StartDay == 20438
StartInstant == StartDay * SecondsPerDay + (SecondsPerDay - 1)

Procs == 1..MaxTrades

\* the client identities (IPs) public_rate_limit tells apart
Clients == 1..2

----------------------------------------------------------------------------
(* ECMAScript Date arithmetic in UTC *)

Day(t) == t \div SecondsPerDay

TimeWithinDay(t) == t % SecondsPerDay

\* <<year, month, day>> of day number z (days since 1970-01-01), proleptic Gregorian
CivilFromDays(z) ==
    LET zz  == z + 719468
        era == zz \div 146097
        doe == zz - era * 146097
        yoe == (doe - doe \div 1460 + doe \div 36524 - doe \div 146096) \div 365
        doy == doe - (365 * yoe + yoe \div 4 - yoe \div 100)
        mp  == (5 * doy + 2) \div 153
        d   == doy - (153 * mp + 2) \div 5 + 1
        m   == IF mp < 10 THEN mp + 3 ELSE mp - 9
        y   == yoe + era * 400 + (IF m <= 2 THEN 1 ELSE 0)
    IN  <<y, m, d>>

\* MakeDay(year, month, date): the day number of day `d` of month m of year y;
\* d outside the month (0, negative) counts on from the month's first day
MakeDay(y, m, d) ==
    LET yy  == IF m <= 2 THEN y - 1 ELSE y
        era == yy \div 400
        yoe == yy - era * 400
        mp  == IF m > 2 THEN m - 3 ELSE m + 9
        doy == (153 * mp + 2) \div 5 + d - 1
        doe == yoe * 365 + yoe \div 4 - yoe \div 100 + doy
    IN  era * 146097 + doe - 719468

getUTCDate(t) == CivilFromDays(Day(t))[3]

setUTCDate(t, d) ==
    LET c == CivilFromDays(Day(t))
    IN  MakeDay(c[1], c[2], d) * SecondsPerDay + TimeWithinDay(t)

\* date.toISOString().split('T')[0]
format_date_utc(t) == CivilFromDays(Day(t))

\* new Date() read as t; date.setUTCDate(date.getUTCDate() - days)
get_date_days_ago(t, days) == setUTCDate(t, getUTCDate(t) - days)

Key(date_key) == <<KEY_PREFIX, date_key>>

----------------------------------------------------------------------------
(* JavaScript numbers and strings as the code uses them *)

NaN == -1

\* a + b of two numbers, NaN when either is NaN
JsAdd(a, b) == IF a = NaN \/ b = NaN THEN NaN ELSE a + b

RECURSIVE IntToString(_)
\* the decimal string Redis holds and returns for the integer n >= 0
IntToString(n) ==
    IF n < 10 THEN <<n>> ELSE Append(IntToString(n \div 10), n % 10)

RECURSIVE ParseDigits(_, _)
ParseDigits(s, acc) ==
    IF s = <<>> THEN acc ELSE ParseDigits(Tail(s), acc * 10 + Head(s))

\* parseInt(s, 10) of a string of digits; NaN for the empty string
parseInt(s) == IF s = <<>> THEN NaN ELSE ParseDigits(s, 0)

\* OrZero without the `|| 0`
OrZeroMissing(val) == val

\* `val || 0` as parseInt sees it: null or "" becomes 0, printed "0"
OrZero(val) == IF val = <<>> THEN IntToString(0) ELSE val

----------------------------------------------------------------------------
(* Redis: the commands the code issues, each executed atomically at time t *)

Bucket(val, exp, born, sets, creator) ==
    [val |-> val, exp |-> exp, born |-> born, sets |-> sets, creator |-> creator]

\* Incr as SET k 1: the count already held is overwritten
IncrOverwrite(s, k, t, who) ==
    [x \in DOMAIN s \cup {k} |-> IF x = k THEN Bucket(1, <<>>, t, 0, who) ELSE s[x]]

\* INCR k, issued by call `who`, executed at time t
Incr(s, k, t, who) ==
    IF k \in DOMAIN s
    THEN [s EXCEPT ![k].val = @ + 1]
    ELSE [x \in DOMAIN s \cup {k} |->
            IF x = k THEN Bucket(1, <<>>, t, 0, who) ELSE s[x]]

\* Expire as SETEX k seconds 1: the TTL is set together with the value 1
ExpireSetEx(s, k, t, seconds) ==
    IF k \in DOMAIN s
    THEN [s EXCEPT ![k].val = 1, ![k].exp = <<t + seconds>>, ![k].sets = @ + 1]
    ELSE s

Expire(s, k, t, seconds) ==
    IF k \in DOMAIN s
    THEN [s EXCEPT ![k].exp = <<t + seconds>>, ![k].sets = @ + 1]
    ELSE s

MGet(s, keys) ==
    [i \in 1..Len(keys) |->
        IF keys[i] \in DOMAIN s THEN IntToString(s[keys[i]].val) ELSE <<>>]

\* the keys still alive at time t
Purge(s, t) ==
    [k \in {x \in DOMAIN s : s[x].exp = <<>> \/ s[x].exp[1] > t} |-> s[k]]

----------------------------------------------------------------------------
(* trade_stats: key building and summation *)

\* the clock as iteration i of a key loop reads it, when the clock passes
\* from t to t + 1 just before iteration j
ClockRead(t, j, i) == IF i < j THEN t ELSE t + 1

\* for (let i = 0; i < days; i++) date_key = format_date_utc(get_date_days_ago(i))
DateKeys(days, t, j) ==
    [n \in 1..days |-> format_date_utc(get_date_days_ago(ClockRead(t, j, n - 1), n - 1))]

BuildKeys(days, t, j) ==
    LET dks == DateKeys(days, t, j) IN [n \in 1..days |-> Key(dks[n])]

\* date_map[key] = date_key, the last assignment winning
BuildDateMap(days, t, j) ==
    LET dks == DateKeys(days, t, j)
    IN  [k \in {Key(dks[n]) : n \in 1..days} |->
            dks[CHOOSE n \in 1..days :
                    /\ Key(dks[n]) = k
                    /\ \A m \in 1..days : Key(dks[m]) = k => m <= n]]

InWeek(index) == index < WeekDays

RECURSIVE WidgetSumElse(_, _, _, _)
\* WidgetSum with count_30d added to in an else branch only
WidgetSumElse(values, index, count_7d, count_30d) ==
    IF index >= Len(values)
    THEN [trades_7d |-> count_7d, trades_30d |-> count_30d]
    ELSE LET count == parseInt(OrZero(values[index + 1]))
         IN  WidgetSumElse(values, index + 1,
                           IF InWeek(index) THEN JsAdd(count_7d, count) ELSE count_7d,
                           IF InWeek(index) THEN count_30d ELSE JsAdd(count_30d, count))

RECURSIVE WidgetSum(_, _, _, _)
\* values.forEach((val, index) => ...) from `index` (0-based) on
WidgetSum(values, index, count_7d, count_30d) ==
    IF index >= Len(values)
    THEN [trades_7d |-> count_7d, trades_30d |-> count_30d]
    ELSE LET count == parseInt(OrZero(values[index + 1]))
         IN  WidgetSum(values, index + 1,
                       IF InWeek(index) THEN JsAdd(count_7d, count) ELSE count_7d,
                       JsAdd(count_30d, count))

DailyPut(daily, date, count) ==
    [d \in DOMAIN daily \cup {date} |-> IF d = date THEN count ELSE daily[d]]

RECURSIVE CountSum(_, _, _, _, _, _)
\* keys.forEach((key, index) => ...) from `index` (0-based) on
CountSum(keys, date_map, values, index, total, daily) ==
    IF index >= Len(keys)
    THEN [total |-> total, daily |-> daily]
    ELSE LET count == parseInt(OrZero(values[index + 1]))
             date  == date_map[keys[index + 1]]
         IN  CountSum(keys, date_map, values, index + 1,
                      JsAdd(total, count), DailyPut(daily, date, count))

\* NeedsExpire without the test: EXPIRE after every INCR
NeedsExpireAlways(count) == count >= 1

\* if (count === 1)
NeedsExpire(count) == count = 1

----------------------------------------------------------------------------
(* Initial state: an empty store, no call under way *)

NoResult == [op |-> "none"]

NotSeen == [store |-> <<>>, start |-> 0, now |-> 0]

\* no get_widget_stats call has returned yet
NoPrev == [op |-> "none"]

\* no request is being handled
NoRequest == [pc |-> "idle", client |-> 0, res |-> [kind |-> "none"], reads |-> 0, logs |-> {}]

\* the backfill script has not been run
NoBackfill == [pc |-> "idle", start_date |-> 0, results |-> <<>>, today |-> 0,
               index |-> 0, written |-> {}]

\* no AnimatedCounter is rendered
NoCounter == [rendered |-> FALSE, value |-> 0, count |-> 0, hasAnimated |-> FALSE,
              prevValue |-> 0, observer |-> [value |-> 0, hasAnimated |-> FALSE],
              anims |-> <<>>, changes |-> 0]

Init ==
    /\ now = StartInstant
    /\ store = <<>>
    /\ trades = {}
    /\ ct_pc = [p \in Procs |-> "idle"]
    /\ ct_result = [p \in Procs |-> "none"]
    /\ rt_pc = [p \in Procs |-> "none"]
    /\ rt_key = [p \in Procs |-> <<>>]
    /\ rt_count = [p \in Procs |-> 0]
    /\ rt_calls = [p \in Procs |-> 0]
    /\ log = {}
    /\ rd_pc = "idle"
    /\ rd_op = "none"
    /\ rd_days = 0
    /\ rd_keys = <<>>
    /\ rd_date_map = <<>>
    /\ rd_result = NoResult
    /\ rd_seen = NotSeen
    /\ rd_prev = NoPrev
    /\ req = NoRequest
    /\ hits = [c \in Clients |-> <<>>]
    /\ bf = NoBackfill
    /\ trades7d = <<>>
    /\ trades30d = <<>>
    /\ polls = <<>>
    /\ mounted = FALSE
    /\ ac = NoCounter

clock_vars == <<now, store>>
ct_vars == <<trades, ct_pc, ct_result>>
rt_vars == <<rt_pc, rt_key, rt_count, rt_calls>>
rd_vars == <<rd_pc, rd_op, rd_days, rd_keys, rd_date_map, rd_result, rd_seen, rd_prev>>
http_vars == <<req, hits>>
bf_vars == <<bf>>
ls_vars == <<trades7d, trades30d, polls, mounted>>
\* what trade creation and the reads of trade_stats leave alone
ac_vars == <<ac>>
ext_vars == <<http_vars, bf_vars, ls_vars, ac_vars>>

----------------------------------------------------------------------------
(* The clock.  It is followed at two instants a day, 23:59:59 and 00:00:00. *)

LastSecond(t) == TimeWithinDay(t) = SecondsPerDay - 1

Horizon == StartInstant + MaxDays * SecondsPerDay

\* 23:59:59 -> 00:00:00 of the next day
Tick ==
    /\ LastSecond(now)
    /\ now + 1 <= Horizon
    /\ now' = now + 1
    /\ store' = Purge(store, now')
    /\ UNCHANGED <<ext_vars, ct_vars, rt_vars, log, rd_vars>>

Advance(days) ==
    /\ now + days * SecondsPerDay <= Horizon
    /\ now' = now + days * SecondsPerDay
    /\ store' = Purge(store, now')
    /\ UNCHANGED <<ext_vars, ct_vars, rt_vars, log, rd_vars>>

----------------------------------------------------------------------------
(* create_trade *)

\* StartCreate with record_trade() called before trade.save()
StartCreateRecordsFirst(p) ==
    /\ ct_pc[p] = "idle"
    /\ \A q \in Procs : q < p => ct_pc[q] # "idle"
    /\ ct_pc' = [ct_pc EXCEPT ![p] = "saving"]
    /\ rt_pc' = [rt_pc EXCEPT ![p] = "connect"]
    /\ rt_calls' = [rt_calls EXCEPT ![p] = @ + 1]
    /\ UNCHANGED <<ext_vars, clock_vars, trades, ct_result, rt_key, rt_count, log, rd_vars>>

\* new Trade({...}); trade.save() is issued
StartCreate(p) ==
    /\ ct_pc[p] = "idle"
    /\ \A q \in Procs : q < p => ct_pc[q] # "idle"
    /\ ct_pc' = [ct_pc EXCEPT ![p] = "saving"]
    /\ UNCHANGED <<ext_vars, clock_vars, trades, ct_result, rt_vars, log, rd_vars>>

\* trade.save() resolves: the trade is persisted
SaveOk(p) ==
    /\ ct_pc[p] = "saving"
    /\ trades' = trades \cup {[id |-> p, ts |-> now]}
    /\ ct_pc' = [ct_pc EXCEPT ![p] = "saved"]
    /\ UNCHANGED <<ext_vars, clock_vars, ct_result, rt_vars, log, rd_vars>>

\* trade.save() rejects: the catch block logs and rethrows
SaveFail(p) ==
    /\ ct_pc[p] = "saving"
    /\ ct_pc' = [ct_pc EXCEPT ![p] = "thrown"]
    /\ ct_result' = [ct_result EXCEPT ![p] = "error"]
    /\ log' = log \cup {[op |-> "create_trade_error", p |-> p]}
    /\ UNCHANGED <<ext_vars, clock_vars, trades, rt_vars, rd_vars>>

\* AfterSave with `await trade_stats.record_trade().catch(...)`: the trade is
\* returned only once record_trade has settled
AfterSaveAwaits(p) ==
    /\ ct_pc[p] = "saved"
    /\ IF rt_pc[p] = "none"
       THEN /\ rt_pc' = [rt_pc EXCEPT ![p] = "connect"]
            /\ rt_calls' = [rt_calls EXCEPT ![p] = @ + 1]
            /\ UNCHANGED <<ct_pc, ct_result>>
       ELSE /\ rt_pc[p] \in {"done", "failed"}
            /\ ct_pc' = [ct_pc EXCEPT ![p] = "returned"]
            /\ ct_result' = [ct_result EXCEPT ![p] = "saved_trade"]
            /\ UNCHANGED <<rt_pc, rt_calls>>
    /\ UNCHANGED <<ext_vars, clock_vars, trades, rt_key, rt_count, log, rd_vars>>

\* the continuation after `await trade.save()`: record_trade() is called and runs
\* to its first await (redis.connect()), .catch is attached, the trade is returned
AfterSave(p) ==
    /\ ct_pc[p] = "saved"
    /\ rt_pc' = [rt_pc EXCEPT ![p] = "connect"]
    /\ rt_calls' = [rt_calls EXCEPT ![p] = @ + 1]
    /\ ct_pc' = [ct_pc EXCEPT ![p] = "returned"]
    /\ ct_result' = [ct_result EXCEPT ![p] = "saved_trade"]
    /\ UNCHANGED <<ext_vars, clock_vars, trades, rt_key, rt_count, log, rd_vars>>

----------------------------------------------------------------------------
(* trade_stats.record_trade, as called by create_trade call p *)

\* redis.connect() resolves: the key is built from the clock and INCR is issued
RtConnected(p) ==
    /\ rt_pc[p] = "connect"
    /\ rt_key' = [rt_key EXCEPT ![p] = Key(format_date_utc(now))]
    /\ rt_pc' = [rt_pc EXCEPT ![p] = "incr"]
    /\ UNCHANGED <<ext_vars, clock_vars, ct_vars, rt_count, rt_calls, log, rd_vars>>

\* Redis executes INCR and answers: EXPIRE is issued on 1, else the count is returned
RtIncr(p) ==
    /\ rt_pc[p] = "incr"
    /\ store' = Incr(store, rt_key[p], now, p)
    /\ rt_count' = [rt_count EXCEPT ![p] = store'[rt_key[p]].val]
    /\ rt_pc' = [rt_pc EXCEPT ![p] = IF NeedsExpire(rt_count'[p]) THEN "expire" ELSE "done"]
    /\ UNCHANGED <<ext_vars, now, ct_vars, rt_key, rt_calls, log, rd_vars>>

\* Redis executes EXPIRE and answers: the count is returned
RtExpire(p) ==
    /\ rt_pc[p] = "expire"
    /\ store' = Expire(store, rt_key[p], now, TTL_SECONDS)
    /\ rt_pc' = [rt_pc EXCEPT ![p] = "done"]
    /\ UNCHANGED <<ext_vars, now, ct_vars, rt_key, rt_count, rt_calls, log, rd_vars>>

\* RtFail with the rejection reaching create_trade's try block: logged as
\* create_trade_error and rethrown
RtFailSurfaced(p) ==
    /\ rt_pc[p] \in {"connect", "incr", "expire"}
    /\ rt_pc' = [rt_pc EXCEPT ![p] = "failed"]
    /\ ct_pc' = [ct_pc EXCEPT ![p] = "thrown"]
    /\ ct_result' = [ct_result EXCEPT ![p] = "error"]
    /\ log' = log \cup {[op |-> "create_trade_error", p |-> p]}
    /\ UNCHANGED <<ext_vars, clock_vars, trades, rt_key, rt_count, rt_calls, rd_vars>>

\* RtFail with a retry: the .catch handler logs and calls record_trade again
RtFailRetries(p) ==
    /\ rt_pc[p] \in {"connect", "incr", "expire"}
    /\ rt_pc' = [rt_pc EXCEPT ![p] = "connect"]
    /\ log' = log \cup {[op |-> "record_trade_stats_error", p |-> p]}
    /\ UNCHANGED <<ext_vars, clock_vars, ct_vars, rt_key, rt_count, rt_calls, rd_vars>>

\* the store is unavailable for the pending connect, INCR or EXPIRE: the promise
\* rejects and the .catch handler of create_trade logs it
RtFail(p) ==
    /\ rt_pc[p] \in {"connect", "incr", "expire"}
    /\ rt_pc' = [rt_pc EXCEPT ![p] = "failed"]
    /\ log' = log \cup {[op |-> "record_trade_stats_error", p |-> p]}
    /\ UNCHANGED <<ext_vars, clock_vars, ct_vars, rt_key, rt_count, rt_calls, rd_vars>>

----------------------------------------------------------------------------
(* trade_stats.get_widget_stats and trade_stats.get_trade_count(days) *)

RdStart(op, days) ==
    /\ rd_pc = "idle"
    /\ rd_pc' = "connect"
    /\ rd_op' = op
    /\ rd_days' = days
    /\ UNCHANGED <<ext_vars, clock_vars, ct_vars, rt_vars, log, rd_keys, rd_date_map, rd_result,
                   rd_seen, rd_prev>>

\* redis.connect() resolves: the key loop runs and MGET is issued.  The clock may
\* pass midnight while the loop runs, just before iteration j (j = rd_days: it does not)
RdConnected(j) ==
    /\ rd_pc = "connect"
    /\ j \in 1..rd_days
    /\ j < rd_days => LastSecond(now) /\ now + 1 <= Horizon
    /\ rd_keys' = BuildKeys(rd_days, now, j)
    /\ rd_date_map' = IF rd_op = "count" THEN BuildDateMap(rd_days, now, j) ELSE <<>>
    /\ now' = IF j < rd_days THEN now + 1 ELSE now
    /\ store' = Purge(store, now')
    /\ rd_seen' = [rd_seen EXCEPT !.start = now]
    /\ rd_pc' = "mget"
    /\ UNCHANGED <<ext_vars, ct_vars, rt_vars, log, rd_op, rd_days, rd_result, rd_prev>>

\* RdMGet with count_7d and count_30d of get_widget_stats declared at module
\* level: the sums of the call before are still in them
RdMGetSharedCounts ==
    /\ rd_pc = "mget"
    /\ LET values == MGet(store, rd_keys)
           before == IF rd_prev = NoPrev
                     THEN [trades_7d |-> 0, trades_30d |-> 0] ELSE rd_prev.stats
       IN  rd_result' =
             IF rd_op = "widget"
             THEN [op |-> "widget", last_updated |-> now,
                   stats |-> WidgetSum(values, 0, before.trades_7d, before.trades_30d)]
             ELSE [op |-> "count", last_updated |-> now,
                   stats |-> CountSum(rd_keys, rd_date_map, values, 0, 0, <<>>)]
    /\ rd_seen' = [rd_seen EXCEPT !.store = store, !.now = now]
    /\ rd_pc' = "done"
    /\ UNCHANGED <<ext_vars, clock_vars, ct_vars, rt_vars, log, rd_op, rd_days, rd_keys, rd_date_map,
                   rd_prev>>

\* Redis executes MGET and answers: the values are summed and returned
RdMGet ==
    /\ rd_pc = "mget"
    /\ LET values == MGet(store, rd_keys)
       IN  rd_result' =
             IF rd_op = "widget"
             THEN [op |-> "widget", last_updated |-> now,
                   stats |-> WidgetSum(values, 0, 0, 0)]
             ELSE [op |-> "count", last_updated |-> now,
                   stats |-> CountSum(rd_keys, rd_date_map, values, 0, 0, <<>>)]
    /\ rd_seen' = [rd_seen EXCEPT !.store = store, !.now = now]
    /\ rd_pc' = "done"
    /\ UNCHANGED <<ext_vars, clock_vars, ct_vars, rt_vars, log, rd_op, rd_days, rd_keys, rd_date_map,
                   rd_prev>>

\* the store is unavailable for the pending connect or MGET: the read throws
RdFail ==
    /\ rd_pc \in {"connect", "mget"}
    /\ rd_pc' = "failed"
    /\ UNCHANGED <<ext_vars, clock_vars, ct_vars, rt_vars, log, rd_op, rd_days, rd_keys, rd_date_map,
                   rd_result, rd_seen, rd_prev>>

\* the caller has its answer; the next read may start
RdReset ==
    /\ rd_pc \in {"done", "failed"}
    /\ rd_pc' = "idle"
    /\ rd_op' = "none"
    /\ rd_days' = 0
    /\ rd_keys' = <<>>
    /\ rd_date_map' = <<>>
    /\ rd_result' = NoResult
    /\ rd_seen' = NotSeen
    /\ UNCHANGED <<ext_vars, clock_vars, ct_vars, rt_vars, log, rd_prev>>

\* get_widget_stats has returned and its caller calls it again at once
RdAgain ==
    /\ rd_pc = "done"
    /\ rd_op = "widget"
    /\ rd_prev = NoPrev
    /\ rd_prev' = [op |-> "widget", stats |-> rd_result.stats, keys |-> rd_keys,
                   start |-> rd_seen.start, now |-> rd_seen.now]
    /\ rd_pc' = "connect"
    /\ rd_keys' = <<>>
    /\ rd_result' = NoResult
    /\ rd_seen' = NotSeen
    /\ UNCHANGED <<ext_vars, clock_vars, ct_vars, rt_vars, log, rd_op, rd_days, rd_date_map>>

----------------------------------------------------------------------------

(* A whole read at one instant: the keys built with the clock at t (passing
   midnight before iteration j) and MGET executed on store s *)

get_trade_count(days, t, j, s) ==
    LET keys == BuildKeys(days, t, j)
    IN  CountSum(keys, BuildDateMap(days, t, j), MGet(s, keys), 0, 0, <<>>)

get_widget_stats(t, j, s) ==
    WidgetSum(MGet(s, BuildKeys(WidgetDays, t, j)), 0, 0, 0)

----------------------------------------------------------------------------
(* Trade creation: create_trade calls, their record_trade calls and the clock *)

Next ==
    \/ Tick
    \/ \E days \in AdvanceDays : Advance(days)
    \/ \E p \in Procs : StartCreate(p)
    \/ \E p \in Procs : SaveOk(p)
    \/ \E p \in Procs : SaveFail(p)
    \/ \E p \in Procs : AfterSave(p)
    \/ \E p \in Procs : RtConnected(p)
    \/ \E p \in Procs : RtIncr(p)
    \/ \E p \in Procs : RtExpire(p)
    \/ \E p \in Procs : RtFail(p)

Spec == Init /\ [][Next]_vars

\* The event loop runs the continuation of a resolved `await trade.save()`.
\* Nothing obliges the store to answer, or the clock to move.
FairSpec == Spec /\ \A p \in Procs : WF_vars(AfterSave(p))

----------------------------------------------------------------------------
(* Properties of trade creation *)

Invoked == {p \in Procs : rt_pc[p] # "none"}

TodayKey == Key(format_date_utc(now))

Persisted(p) == \E tr \in trades : tr.id = p

Logged(op, p) == [op |-> op, p |-> p] \in log

\* C1: when every record_trade call made so far has succeeded and all of them
\* counted today's UTC date, get_trade_count(1) read now returns their number N
\* as total, and the N calls were handed the counts 1..N, each once
C1_NoLostUpdates ==
    (\A p \in Invoked : rt_pc[p] = "done" /\ rt_key[p] = TodayKey)
        => /\ get_trade_count(1, now, 1, store).total = Cardinality(Invoked)
           /\ {rt_count[p] : p \in Invoked} = 1..Cardinality(Invoked)

C1_Witness ==
    /\ Cardinality(Invoked) >= 2
    /\ \A p \in Invoked : rt_pc[p] = "done" /\ rt_key[p] = TodayKey
    /\ get_trade_count(1, now, 1, store).total = Cardinality(Invoked)

\* C2: once trade.save() has succeeded create_trade never throws, what it
\* returns is the saved trade, and a record_trade that fails (at connect, INCR
\* or EXPIRE) leaves the call returned with the saved trade, is not retried,
\* and is logged as record_trade_stats_error and nowhere else
C2_RecordFailureNotSurfaced ==
    \A p \in Procs :
        /\ Persisted(p) =>
              /\ ct_pc[p] \in {"saved", "returned"}
              /\ ct_result[p] \in {"none", "saved_trade"}
              /\ ~Logged("create_trade_error", p)
        /\ ct_pc[p] = "returned" => ct_result[p] = "saved_trade"
        /\ rt_pc[p] = "failed" =>
              /\ ct_pc[p] = "returned"
              /\ ct_result[p] = "saved_trade"
              /\ rt_calls[p] = 1
              /\ Logged("record_trade_stats_error", p)
        /\ Logged("record_trade_stats_error", p) => rt_pc[p] = "failed"

C2_Witness ==
    \E p, q \in Procs :
        /\ rt_pc[p] = "failed" /\ rt_count[p] = 1
        /\ rt_pc[q] = "failed" /\ rt_key[q] = <<>>
        /\ ct_result[p] = "saved_trade" /\ ct_result[q] = "saved_trade"

\* C3: record_trade is invoked at most once per create_trade call, only by a
\* call whose trade is persisted, and exactly once by the time the call returns;
\* a call whose save failed never invokes it, and every bucket in the store was
\* created and counted up by calls whose trade is persisted
C3_RecordOnceAfterSave ==
    /\ \A p \in Procs :
          /\ rt_calls[p] <= 1
          /\ rt_calls[p] = 1 <=> ct_pc[p] = "returned"
          /\ rt_calls[p] = 1 => Persisted(p)
          /\ rt_pc[p] # "none" => rt_calls[p] = 1
          /\ ct_pc[p] = "thrown" => rt_calls[p] = 0 /\ rt_pc[p] = "none" /\ ~Persisted(p)
    /\ \A k \in DOMAIN store :
          store[k].val <= Cardinality({p \in Procs : Persisted(p) /\ rt_key[p] = k})

C3_Witness ==
    \E p, q \in Procs :
        /\ ct_pc[p] = "thrown"
        /\ rt_pc[q] = "done"
        /\ store # <<>>

\* C4: a create_trade call whose save has succeeded returns, whether or not
\* the store ever answers record_trade
C4_ReturnsWithoutWaiting ==
    \A p \in Procs : (ct_pc[p] = "saved") ~> (ct_pc[p] = "returned")

C4_Witness ==
    \E p \in Procs : ct_pc[p] = "returned" /\ rt_pc[p] = "connect"

ExpirySetByCreator ==
    \A k \in DOMAIN store :
        LET b == store[k]
        IN  /\ b.sets <= 1
            /\ b.exp # <<>> <=> b.sets = 1
            /\ b.creator \in Procs
            /\ rt_key[b.creator] = k /\ rt_count[b.creator] = 1
            /\ b.sets = 1 <=> rt_pc[b.creator] = "done"

IncrKeepsExpiry ==
    \A k \in DOMAIN store \cap DOMAIN store' :
        /\ store'[k].val # store[k].val =>
              store'[k].exp = store[k].exp /\ store'[k].sets = store[k].sets
        /\ store[k].exp # <<>> => store'[k].exp = store[k].exp

\* C9: a bucket's expiry is set at most once, by the record_trade call whose
\* INCR returned 1 and exactly once when that call has succeeded; an INCR of
\* an existing bucket leaves its expiry as it is, and an expiry once set is
\* never changed
C9_ExpirySetOnce == [](ExpirySetByCreator) /\ [][IncrKeepsExpiry]_vars

C9_Witness ==
    \E k \in DOMAIN store :
        /\ store[k].val >= 2
        /\ store[k].sets = 1
        /\ now > store[k].born

\* C10: once the record_trade call that created a bucket has finished, returned
\* or failed, the bucket carries an expiry
C10_CreatedBucketsExpire ==
    \A k \in DOMAIN store :
        (store[k].creator \in Procs /\ rt_pc[store[k].creator] \in {"done", "failed"})
            => store[k].exp # <<>>

----------------------------------------------------------------------------
(* Reads: get_widget_stats and get_trade_count(days) against the stores that
   record_trade leaves behind: at most MaxBuckets buckets, each created at
   00:00:00 of its day with its 35-day expiry set, none of them expired yet *)

DayKey(day) == Key(CivilFromDays(day))

StoreOf(offsets, value) ==
    [k \in {DayKey(StartDay - o) : o \in offsets} |->
        LET o == CHOOSE x \in offsets : DayKey(StartDay - x) = k
            born == (StartDay - o) * SecondsPerDay
        IN  Bucket(value[o], <<born + TTL_SECONDS>>, born, 1, 0)]

InitRead ==
    /\ now = StartInstant
    /\ \E offsets \in SUBSET StoreOffsets :
          /\ Cardinality(offsets) <= MaxBuckets
          /\ \E value \in [offsets -> BucketValues] : store = StoreOf(offsets, value)
    /\ trades = {}
    /\ ct_pc = [p \in Procs |-> "idle"]
    /\ ct_result = [p \in Procs |-> "none"]
    /\ rt_pc = [p \in Procs |-> "none"]
    /\ rt_key = [p \in Procs |-> <<>>]
    /\ rt_count = [p \in Procs |-> 0]
    /\ rt_calls = [p \in Procs |-> 0]
    /\ log = {}
    /\ rd_pc = "idle"
    /\ rd_op = "none"
    /\ rd_days = 0
    /\ rd_keys = <<>>
    /\ rd_date_map = <<>>
    /\ rd_result = NoResult
    /\ rd_seen = NotSeen
    /\ rd_prev = NoPrev
    /\ req = NoRequest
    /\ hits = [c \in Clients |-> <<>>]
    /\ bf = NoBackfill
    /\ trades7d = <<>>
    /\ trades30d = <<>>
    /\ polls = <<>>
    /\ mounted = FALSE
    /\ ac = NoCounter

NextRead ==
    \/ Tick
    \/ \E days \in AdvanceDays : Advance(days)
    \/ RdStart("widget", WidgetDays)
    \/ \E days \in CountDays : RdStart("count", days)
    \/ \E j \in 1..WidgetDays : RdConnected(j)
    \/ RdMGet
    \/ RdFail
    \/ RdReset

SpecRead == InitRead /\ [][NextRead]_vars

----------------------------------------------------------------------------
(* Properties of the reads *)

WidgetDone == rd_pc = "done" /\ rd_op = "widget"

CountDone == rd_pc = "done" /\ rd_op = "count"

\* the day number of the date a key names
DayOfKey(k) == MakeDay(k[2][1], k[2][2], k[2][3])

\* what the bucket of day number `day` holds in store s, 0 when there is none
Held(s, day) == IF DayKey(day) \in DOMAIN s THEN s[DayKey(day)].val ELSE 0

RECURSIVE SumDays(_, _, _)
\* the sum of the buckets of the n days today, today - 1, ..., today - (n - 1)
SumDays(s, today, n) ==
    IF n = 0 THEN 0 ELSE SumDays(s, today, n - 1) + Held(s, today - (n - 1))

RECURSIVE SumPresent(_, _, _)
\* the sum of what s holds under keys[1..n], absent keys left out
SumPresent(s, keys, n) ==
    IF n = 0 THEN 0
    ELSE SumPresent(s, keys, n - 1) + (IF keys[n] \in DOMAIN s THEN s[keys[n]].val ELSE 0)

Min(a, b) == IF a < b THEN a ELSE b

\* C5: what get_widget_stats returns has trades_7d <= trades_30d, both numbers
C5_WeekWithinMonth ==
    WidgetDone =>
        /\ rd_result.stats.trades_7d >= 0
        /\ rd_result.stats.trades_7d <= rd_result.stats.trades_30d

C5_Witness ==
    /\ WidgetDone
    /\ 0 < rd_result.stats.trades_7d
    /\ rd_result.stats.trades_7d < rd_result.stats.trades_30d

\* C6: what get_widget_stats returns is the sum of the buckets of today through
\* 6 days ago as trades_7d and of today through 29 days ago as trades_30d, in
\* the store as MGET saw it, today being the UTC date at which the call built
\* its keys or the one at which MGET was executed
C6_ExactRollingTotals ==
    WidgetDone =>
        \E today \in {Day(rd_seen.start), Day(rd_seen.now)} :
            /\ rd_result.stats.trades_7d = SumDays(rd_seen.store, today, WeekDays)
            /\ rd_result.stats.trades_30d = SumDays(rd_seen.store, today, WidgetDays)

\* C7: the keys one get_widget_stats call builds name 30 consecutive UTC dates,
\* each one day before the one before it, the first being the date at which the
\* call started to build them or the day after
C7_ThirtyConsecutiveDates ==
    (rd_op = "widget" /\ rd_pc \in {"mget", "done"}) =>
        /\ Len(rd_keys) = WidgetDays
        /\ DayOfKey(rd_keys[1]) \in {Day(rd_seen.start), Day(rd_seen.start) + 1}
        /\ \A n \in 1..(WidgetDays - 1) : DayOfKey(rd_keys[n + 1]) = DayOfKey(rd_keys[n]) - 1

\* C8: a key with no bucket adds exactly 0: the totals of get_widget_stats and of
\* get_trade_count are the sums over the keys that have a bucket, daily holds 0
\* for every date without one, and no value returned is NaN
C8_AbsentCountsZero ==
    /\ WidgetDone =>
          /\ rd_result.stats.trades_7d =
                SumPresent(rd_seen.store, rd_keys, Min(WeekDays, Len(rd_keys)))
          /\ rd_result.stats.trades_30d = SumPresent(rd_seen.store, rd_keys, Len(rd_keys))
    /\ CountDone =>
          /\ rd_result.stats.total = SumPresent(rd_seen.store, rd_keys, Len(rd_keys))
          /\ \A n \in 1..Len(rd_keys) :
                LET date == rd_date_map[rd_keys[n]]
                IN  /\ date \in DOMAIN rd_result.stats.daily
                    /\ rd_result.stats.daily[date] # NaN
                    /\ rd_keys[n] \notin DOMAIN rd_seen.store
                          => rd_result.stats.daily[date] = 0

C8_Witness ==
    /\ CountDone
    /\ rd_result.stats.total > 0
    /\ \E n \in 1..Len(rd_keys) :
          /\ rd_keys[n] \notin DOMAIN rd_seen.store
          /\ rd_result.stats.daily[rd_date_map[rd_keys[n]]] = 0

----------------------------------------------------------------------------
(* Buckets over time, under trade creation *)

\* what a read of the bucket under key k returns on store s
ReadBucket(s, k) == parseInt(OrZero(MGet(s, <<k>>)[1]))

OneBucketPerDate ==
    \A k \in DOMAIN store :
        /\ k = DayKey(DayOfKey(k))
        /\ \A k2 \in DOMAIN store : DayOfKey(k2) = DayOfKey(k) => k2 = k

CountKept ==
    \A k \in DOMAIN store \cap DOMAIN store' : ReadBucket(store', k) >= ReadBucket(store, k)

\* C11: a bucket that is in the store before and after a step (it has not
\* expired) reads after the step at least what it read before, and the store
\* holds at most one bucket per calendar date
C11_CountNeverDecreases == [](OneBucketPerDate) /\ [][CountKept]_vars

C11_Witness ==
    \E p \in Procs :
        /\ rt_pc[p] = "expire"
        /\ rt_key[p] \in DOMAIN store
        /\ ReadBucket(store, rt_key[p]) >= 2

RECURSIVE SumOfBuckets(_, _)
\* the sum of what s holds under the keys ks
SumOfBuckets(s, ks) ==
    IF ks = {} THEN 0
    ELSE LET k == CHOOSE x \in ks : TRUE
         IN  s[k].val + SumOfBuckets(s, ks \ {k})

\* C12: the buckets of the store sum to no more than the trades persisted, and
\* a bucket holds no more than the persisted trades whose INCR went to it
C12_AtMostOnce ==
    /\ SumOfBuckets(store, DOMAIN store) <= Cardinality(trades)
    /\ \A k \in DOMAIN store :
          store[k].val <= Cardinality({p \in Procs : Persisted(p) /\ rt_key[p] = k
                                                     /\ rt_count[p] >= 1})

C12_Witness ==
    /\ Cardinality(trades) = 2
    /\ \A p \in Procs : Persisted(p) => rt_pc[p] \in {"done", "failed"}
    /\ \E p \in Procs : rt_pc[p] = "failed" /\ rt_count[p] = 0
    /\ SumOfBuckets(store, DOMAIN store) = 1

\* record_trade call p has counted a date that is one of the 30 of a
\* get_widget_stats call made at time t
InWindow(p, t) ==
    /\ rt_count[p] >= 1
    /\ Day(t) - DayOfKey(rt_key[p]) \in 0..(WidgetDays - 1)

\* the stored keys whose date is one of the 30 dates of a call made at t
KeysInWindow(t) ==
    {k \in DOMAIN store : Day(t) - DayOfKey(k) \in 0..(WidgetDays - 1)}

\* t is the last second at which a counted date is one of the 30 dates
AtWindowEdge(t) ==
    /\ LastSecond(t)
    /\ \E p \in Procs : rt_count[p] >= 1 /\ Day(t) - DayOfKey(rt_key[p]) = WidgetDays - 1

\* C17: a bucket that record_trade has counted up is in the store for as long as
\* its date is one of the 30 dates of get_widget_stats, the buckets of those
\* dates hold the number of record_trade calls that counted one of them, and
\* in the last second a counted date is in the window trades_30d of a call
\* made now is that number
C17_RetentionCoversWindow ==
    /\ \A p \in Procs : InWindow(p, now) => rt_key[p] \in DOMAIN store
    /\ SumOfBuckets(store, KeysInWindow(now)) =
          Cardinality({p \in Procs : InWindow(p, now)})
    /\ AtWindowEdge(now) =>
          get_widget_stats(now, WidgetDays, store).trades_30d =
              Cardinality({p \in Procs : InWindow(p, now)})

C17_Witness ==
    \E p \in Procs :
        /\ InWindow(p, now)
        /\ AtWindowEdge(now)
        /\ Day(now) - DayOfKey(rt_key[p]) = WidgetDays - 1
        /\ store[rt_key[p]].exp = <<store[rt_key[p]].born + TTL_SECONDS>>
        /\ get_widget_stats(now, WidgetDays, store).trades_30d >= 1

----------------------------------------------------------------------------
(* Two get_widget_stats calls in immediate succession: the second is made as
   soon as the first has returned, on the stores of InitRead, with no
   record_trade in between; the clock may pass midnight at any point *)

NextTwice ==
    \/ Tick
    \/ RdStart("widget", WidgetDays)
    \/ \E j \in 1..WidgetDays : RdConnected(j)
    \/ RdMGet
    \/ RdAgain

SpecTwice == InitRead /\ [][NextTwice]_vars

SecondDone == rd_pc = "done" /\ rd_op = "widget" /\ rd_prev # NoPrev

SameTotals ==
    /\ rd_result.stats.trades_7d = rd_prev.stats.trades_7d
    /\ rd_result.stats.trades_30d = rd_prev.stats.trades_30d

\* the keys name consecutive dates, each one day before the one before it
Consecutive(keys) ==
    \A n \in 1..(Len(keys) - 1) : DayOfKey(keys[n + 1]) = DayOfKey(keys[n]) - 1

\* C13 as stated: the second of two get_widget_stats calls made in immediate
\* succession returns the trades_7d and trades_30d of the first; stated of the
\* calls that each built the keys of 30 consecutive dates, so that the date
\* repeated when midnight passes inside a key loop (C7) plays no part
C13_ReadsIdempotent ==
    (SecondDone /\ Consecutive(rd_prev.keys) /\ Consecutive(rd_keys)) => SameTotals

\* C13 as amended: the second of two get_widget_stats calls made in immediate
\* succession returns the trades_7d and trades_30d of the first when the UTC
\* date has not changed from the moment the first call started to build its
\* keys until MGET of the second was executed
C13_ReadsIdempotentWithinDay ==
    (SecondDone /\ Day(rd_prev.start) = Day(rd_seen.now)) => SameTotals

C13_Witness ==
    /\ SecondDone
    /\ Day(rd_prev.start) = Day(rd_seen.now)
    /\ 0 < rd_result.stats.trades_7d
    /\ rd_result.stats.trades_7d < rd_result.stats.trades_30d
    /\ SameTotals

----------------------------------------------------------------------------
(* get_trade_count(days) *)

RECURSIVE SumOfValues(_, _)
\* the sum of the values of the mapping f over the keys ks
SumOfValues(f, ks) ==
    IF ks = {} THEN 0
    ELSE LET k == CHOOSE x \in ks : TRUE
         IN  f[k] + SumOfValues(f, ks \ {k})

\* C16: what get_trade_count(days) returns has a daily of exactly `days`
\* entries, the dates of today back to days - 1 days ago (today being the UTC
\* date at which the call built its keys or the one at which MGET was
\* executed), and a total that is the sum of the values of daily
C16_DailyMatchesTotal ==
    CountDone =>
        LET daily == rd_result.stats.daily
        IN  /\ Cardinality(DOMAIN daily) = rd_days
            /\ \E today \in {Day(rd_seen.start), Day(rd_seen.now)} :
                  DOMAIN daily = {CivilFromDays(today - i) : i \in 0..(rd_days - 1)}
            /\ rd_result.stats.total = SumOfValues(daily, DOMAIN daily)

----------------------------------------------------------------------------
(* The public route GET /stats/trades: public_rate_limit, then
   public_controller.get_trade_stats, public_service.get_trade_stats and
   trade_stats.get_widget_stats.  One request is handled at a time. *)

\* max_per_second: the cap of the comment's "2 per second" taken for max
max_per_second == 2
max == 120
windowMs == 60 * 1000
message == [success |-> FALSE, message |-> "Too many requests, please try again later"]

\* the requests of the log h that fall in the window ending at t
RECURSIVE HitsInWindow(_, _, _)
HitsInWindow(h, ts, t) ==
    IF ts = {} THEN 0
    ELSE LET x == CHOOSE y \in ts : TRUE
         IN  (IF t - x < windowMs \div 1000 THEN h[x] ELSE 0) + HitsInWindow(h, ts \ {x}, t)

\* the log h without the requests that are out of the window ending at t
InWindowAt(h, t) == [x \in {y \in DOMAIN h : t - y < windowMs \div 1000} |-> h[x]]

\* the log h with a request at t added and the requests out of the window dropped
Hit(h, t) ==
    [x \in DOMAIN InWindowAt(h, t) \cup {t} |->
        IF x \in DOMAIN h THEN (IF x = t THEN h[x] + 1 ELSE h[x]) ELSE 1]

\* public_rate_limit lets a request of client c through at time t
Allowed(c, t) == HitsInWindow(hits[c], DOMAIN hits[c], t) < max

\* the requests a run follows: all of the first client, and of the others
\* MaxOtherRequests a window, made while the first client is at the cap
Followed(c) ==
    \/ c = 1
    \/ /\ HitsInWindow(hits[c], DOMAIN hits[c], now) < MaxOtherRequests
       /\ ~Allowed(1, now)

\* router.use(public_rate_limit): the request is over the cap and is answered
\* with `message`; the route handler is not called
RateLimitReject(c) ==
    /\ req.pc = "idle"
    /\ rd_pc = "idle"
    /\ Followed(c)
    /\ ~Allowed(c, now)
    /\ req' = [pc |-> "responded", client |-> c, reads |-> 0, logs |-> {},
               res |-> [kind |-> "rate_limited", body |-> message]]
    /\ UNCHANGED <<clock_vars, ct_vars, rt_vars, log, rd_vars, hits, bf_vars, ls_vars, ac_vars>>

\* router.use(public_rate_limit) lets the request through; the controller calls
\* the service, which calls get_widget_stats and awaits it
GetTradeStats(c) ==
    /\ req.pc = "idle"
    /\ rd_pc = "idle"
    /\ Followed(c)
    /\ Allowed(c, now)
    /\ hits' = [hits EXCEPT ![c] = Hit(@, now)]
    /\ req' = [pc |-> "service", client |-> c, reads |-> 1, logs |-> {},
               res |-> [kind |-> "none"]]
    /\ rd_pc' = "connect"
    /\ rd_op' = "widget"
    /\ rd_days' = WidgetDays
    /\ UNCHANGED <<clock_vars, ct_vars, rt_vars, log, rd_keys, rd_date_map, rd_result, rd_seen,
                   rd_prev, bf_vars, ls_vars, ac_vars>>

\* get_widget_stats has returned: the service logs and returns the stats, the
\* controller sets Cache-Control and answers success_response(res, stats, ...)
GetTradeStatsOk ==
    /\ req.pc = "service"
    /\ rd_pc = "done"
    /\ req' = [req EXCEPT !.pc = "responded",
                          !.res = [kind |-> "success_response",
                                   data |-> [trades_7d |-> rd_result.stats.trades_7d,
                                             trades_30d |-> rd_result.stats.trades_30d,
                                             last_updated |-> rd_result.last_updated],
                                   cache_control |-> "public, max-age=5, s-maxage=5",
                                   message |-> "trade stats retrieved"]]
    /\ UNCHANGED <<clock_vars, ct_vars, rt_vars, log, rd_vars, hits, bf_vars, ls_vars, ac_vars>>

\* GetTradeStatsError with a service that answers zeros instead of rethrowing
GetTradeStatsErrorZeros ==
    /\ req.pc = "service"
    /\ rd_pc = "failed"
    /\ req' = [req EXCEPT !.pc = "responded",
                          !.logs = {"public:service:get_trade_stats_error"},
                          !.res = [kind |-> "success_response",
                                   data |-> [trades_7d |-> 0, trades_30d |-> 0,
                                             last_updated |-> now],
                                   cache_control |-> "public, max-age=5, s-maxage=5",
                                   message |-> "trade stats retrieved"]]
    /\ UNCHANGED <<clock_vars, ct_vars, rt_vars, log, rd_vars, hits, bf_vars, ls_vars, ac_vars>>

\* get_widget_stats has thrown: the service logs and rethrows, the controller
\* logs and calls next(error)
GetTradeStatsError ==
    /\ req.pc = "service"
    /\ rd_pc = "failed"
    /\ req' = [req EXCEPT !.pc = "responded",
                          !.logs = {"public:service:get_trade_stats_error",
                                    "public:controller:get_trade_stats_error"},
                          !.res = [kind |-> "next_error"]]
    /\ UNCHANGED <<clock_vars, ct_vars, rt_vars, log, rd_vars, hits, bf_vars, ls_vars, ac_vars>>

\* the response is out; the next request can be taken
ReqDone ==
    /\ req.pc = "responded"
    /\ req' = NoRequest
    /\ rd_pc' = "idle"
    /\ rd_op' = "none"
    /\ rd_days' = 0
    /\ rd_keys' = <<>>
    /\ rd_date_map' = <<>>
    /\ rd_result' = NoResult
    /\ rd_seen' = NotSeen
    /\ UNCHANGED <<clock_vars, ct_vars, rt_vars, log, rd_prev, hits, bf_vars, ls_vars, ac_vars>>

\* The clock of the requests: one second short of a window passes up to the
\* start instant 23:59:59, then one second, to 00:00:00
Pass ==
    /\ \/ /\ now + (windowMs \div 1000 - 1) <= StartInstant
          /\ now' = now + (windowMs \div 1000 - 1)
       \/ /\ now = StartInstant
          /\ now' = now + 1
    /\ store' = Purge(store, now')
    /\ hits' = [c \in Clients |-> InWindowAt(hits[c], now')]
    /\ UNCHANGED <<ct_vars, rt_vars, log, rd_vars, req, bf_vars, ls_vars, ac_vars>>

\* the store the requests read: a bucket of 1 today, one of 12 seven days ago
HttpStore == StoreOf({0, 7}, [o \in {0, 7} |-> IF o = 0 THEN 1 ELSE 12])

InitHttp ==
    /\ now = StartInstant - (windowMs \div 1000 - 1)
    /\ store = HttpStore
    /\ trades = {}
    /\ ct_pc = [p \in Procs |-> "idle"]
    /\ ct_result = [p \in Procs |-> "none"]
    /\ rt_pc = [p \in Procs |-> "none"]
    /\ rt_key = [p \in Procs |-> <<>>]
    /\ rt_count = [p \in Procs |-> 0]
    /\ rt_calls = [p \in Procs |-> 0]
    /\ log = {}
    /\ rd_pc = "idle"
    /\ rd_op = "none"
    /\ rd_days = 0
    /\ rd_keys = <<>>
    /\ rd_date_map = <<>>
    /\ rd_result = NoResult
    /\ rd_seen = NotSeen
    /\ rd_prev = NoPrev
    /\ req = NoRequest
    /\ hits = [c \in Clients |-> <<>>]
    /\ bf = NoBackfill
    /\ trades7d = <<>>
    /\ trades30d = <<>>
    /\ polls = <<>>
    /\ mounted = FALSE
    /\ ac = NoCounter

NextHttp ==
    \/ Pass
    \/ \E c \in Clients : RateLimitReject(c)
    \/ \E c \in Clients : GetTradeStats(c)
    \/ RdConnected(WidgetDays)
    \/ RdMGet
    \/ RdFail
    \/ GetTradeStatsOk
    \/ GetTradeStatsError
    \/ ReqDone

SpecHttp == InitHttp /\ [][NextHttp]_vars

\* the totals of a complete read of the keys the request built
CompleteTotals ==
    [trades_7d |-> SumPresent(rd_seen.store, rd_keys, WeekDays),
     trades_30d |-> SumPresent(rd_seen.store, rd_keys, WidgetDays)]

\* a success response is sent only for a read that came back, with its totals
SuccessIsComplete ==
    req.res.kind = "success_response" =>
        /\ rd_pc = "done"
        /\ Len(rd_keys) = WidgetDays
        /\ req.res.data.trades_7d = CompleteTotals.trades_7d
        /\ req.res.data.trades_30d = CompleteTotals.trades_30d

\* a request whose read failed is answered through next(error), after one read
FailureIsPassedOn ==
    (req.pc = "responded" /\ rd_pc = "failed") =>
        /\ req.res.kind = "next_error"
        /\ req.reads = 1
        /\ "public:controller:get_trade_stats_error" \in req.logs

\* a failed read is not started again by the request that made it
FailedStaysFailed ==
    (rd_pc = "failed" /\ req.pc # "idle" /\ req'.pc # "idle") =>
        (rd_pc' = "failed" /\ req'.reads = req.reads)

\* C14: when the store fails at the connect or at the MGET of a request's read,
\* the request ends with the error handed to next(): it gets no success
\* response, no partly summed trades_7d / trades_30d, and the read is not made
\* again
C14_FailureEnvelope ==
    [](SuccessIsComplete /\ FailureIsPassedOn) /\ [][FailedStaysFailed]_vars

C14_Witness ==
    /\ req.pc = "responded"
    /\ rd_pc = "failed"
    /\ rd_keys # <<>>
    /\ req.res.kind = "next_error"

----------------------------------------------------------------------------
(* scripts/backfill_trade_stats.js, run while create_trade is being called.
   Mongo holds the trades of the days HistoryOffsets before the start day; the
   clock stands still while the script runs. *)

\* the days before the start day on which one trade was persisted at 00:00:00
HistoryOffsets == {0, 1, 35, 36}

History(offsets) ==
    {[id |-> 0 - (o + 1), ts |-> (StartDay - o) * SecondsPerDay] : o \in offsets}

BACKFILL_DAYS == 35

\* date.setUTCHours(0, 0, 0, 0)
setUTCHours0(t) == Day(t) * SecondsPerDay

get_start_of_day_days_ago(t, days) == setUTCHours0(get_date_days_ago(t, days))

\* Math.floor((date1 - date2) / ms_per_day)
diff_in_days(date1, date2) == (date1 - date2) \div SecondsPerDay

\* new Date(day._id + 'T00:00:00Z')
DateOfId(id) == MakeDay(id[1], id[2], id[3]) * SecondsPerDay

\* SET k v, executed at time t: the value is replaced and the key's TTL is gone
Set(s, k, v, t) ==
    [x \in DOMAIN s \cup {k} |->
        IF x = k
        THEN Bucket(v, <<>>, IF k \in DOMAIN s THEN s[k].born ELSE t, 0, 0)
        ELSE s[x]]

RECURSIVE GroupByDay(_, _)
\* $group by the UTC date of timestamp with $sum 1, $sort by _id ascending
GroupByDay(ts, days) ==
    IF days = {} THEN <<>>
    ELSE LET d == CHOOSE x \in days : \A y \in days : x <= y
         IN  <<[_id |-> CivilFromDays(d),
                count |-> Cardinality({tr \in ts : Day(tr.ts) = d})]>>
             \o GroupByDay(ts, days \ {d})

\* Trade.aggregate([{$match: {timestamp: {$gte: start_date}}}, {$group}, {$sort}])
Aggregate(ts, start_date) ==
    LET matched == {tr \in ts : tr.ts >= start_date}
    IN  GroupByDay(matched, {Day(tr.ts) : tr \in matched})

\* the TTL in days the loop computes for results[index]
TtlDays(b) ==
    BACKFILL_DAYS - diff_in_days(b.today, DateOfId(b.results[b.index]._id))

\* the loop goes to the next day, or the script is through
NextDay(b) ==
    [b EXCEPT !.index = @ + 1,
              !.pc = IF b.index < Len(b.results) THEN "set" ELSE "done"]

\* mongodb and redis are connected: start_date is computed, the aggregate issued
BfStart ==
    /\ bf.pc = "idle"
    /\ bf' = [bf EXCEPT !.pc = "aggregate",
                        !.start_date = get_start_of_day_days_ago(now, BACKFILL_DAYS)]
    /\ UNCHANGED <<clock_vars, ct_vars, rt_vars, log, rd_vars, http_vars, ls_vars, ac_vars>>

\* Mongo answers the aggregate: today is read, SET of the first day is issued
BfAggregate ==
    /\ bf.pc = "aggregate"
    /\ LET results == Aggregate(trades, bf.start_date)
       IN  bf' = [bf EXCEPT !.results = results,
                            !.today = setUTCHours0(now),
                            !.index = 1,
                            !.pc = IF results = <<>> THEN "done" ELSE "set"]
    /\ UNCHANGED <<clock_vars, ct_vars, rt_vars, log, rd_vars, http_vars, ls_vars, ac_vars>>

\* Redis executes SET; EXPIRE is issued when ttl_days > 0
BfSet ==
    /\ bf.pc = "set"
    /\ LET day == bf.results[bf.index]
           key == Key(day._id)
       IN  /\ store' = Set(store, key, day.count, now)
           /\ bf' = IF TtlDays(bf) > 0
                    THEN [bf EXCEPT !.pc = "expire", !.written = @ \cup {key}]
                    ELSE [NextDay(bf) EXCEPT !.written = @ \cup {key}]
    /\ UNCHANGED <<now, ct_vars, rt_vars, log, rd_vars, http_vars, ls_vars, ac_vars>>

\* Redis executes EXPIRE key ttl_days * 24 * 60 * 60
BfExpire ==
    /\ bf.pc = "expire"
    /\ store' = Expire(store, Key(bf.results[bf.index]._id), now,
                       TtlDays(bf) * 24 * 60 * 60)
    /\ bf' = NextDay(bf)
    /\ UNCHANGED <<now, ct_vars, rt_vars, log, rd_vars, http_vars, ls_vars, ac_vars>>

\* an awaited call rejects: backfill().catch logs and exits with 1
BfFail ==
    /\ bf.pc \in {"aggregate", "set", "expire"}
    /\ bf' = [bf EXCEPT !.pc = "failed"]
    /\ UNCHANGED <<clock_vars, ct_vars, rt_vars, log, rd_vars, http_vars, ls_vars, ac_vars>>

InitBackfill ==
    /\ now = StartInstant
    /\ store = <<>>
    /\ trades \in {History(os) : os \in SUBSET HistoryOffsets}
    /\ ct_pc = [p \in Procs |-> "idle"]
    /\ ct_result = [p \in Procs |-> "none"]
    /\ rt_pc = [p \in Procs |-> "none"]
    /\ rt_key = [p \in Procs |-> <<>>]
    /\ rt_count = [p \in Procs |-> 0]
    /\ rt_calls = [p \in Procs |-> 0]
    /\ log = {}
    /\ rd_pc = "idle"
    /\ rd_op = "none"
    /\ rd_days = 0
    /\ rd_keys = <<>>
    /\ rd_date_map = <<>>
    /\ rd_result = NoResult
    /\ rd_seen = NotSeen
    /\ rd_prev = NoPrev
    /\ req = NoRequest
    /\ hits = [c \in Clients |-> <<>>]
    /\ bf = NoBackfill
    /\ trades7d = <<>>
    /\ trades30d = <<>>
    /\ polls = <<>>
    /\ mounted = FALSE
    /\ ac = NoCounter

NextBackfill ==
    \/ BfStart
    \/ BfAggregate
    \/ BfSet
    \/ BfExpire
    \/ BfFail
    \/ \E p \in Procs : StartCreate(p)
    \/ \E p \in Procs : SaveOk(p)
    \/ \E p \in Procs : SaveFail(p)
    \/ \E p \in Procs : AfterSave(p)
    \/ \E p \in Procs : RtConnected(p)
    \/ \E p \in Procs : RtIncr(p)
    \/ \E p \in Procs : RtExpire(p)
    \/ \E p \in Procs : RtFail(p)

SpecBackfill == InitBackfill /\ [][NextBackfill]_vars

\* C18: once the backfill script is through, every key it wrote carries an
\* expiry, for every day its query returned (days 0 to 35 days ago)
C18_BackfilledKeysExpire ==
    bf.pc = "done" =>
        \A k \in bf.written : k \in DOMAIN store => store[k].exp # <<>>

\* every create_trade call and its record_trade are through, none failed at
\* the store
RecordingSettled ==
    \A p \in Procs :
        /\ ct_pc[p] \in {"idle", "returned", "thrown"}
        /\ rt_pc[p] \in {"none", "done"}

\* the trades persisted on the UTC date of t
PersistedOn(t) == {tr \in trades : Day(tr.ts) = Day(t)}

\* C19: when the backfill ran while trades were created, and it and every
\* record_trade call are through with no store failure, today's bucket holds
\* the number of trades persisted today
C19_BackfillComposes ==
    (bf.pc = "done" /\ RecordingSettled) =>
        Held(store, Day(now)) = Cardinality(PersistedOn(now))

----------------------------------------------------------------------------
(* src/components/interactive/LiveStats.tsx: the LiveStats component.
   trades7d and trades30d hold <<>> for null and <<n>> for the number n; polls
   holds the fetchStats calls, each in flight ("fetch", "json") or settled. *)

\* the fetchStats calls in flight at once
MaxPolls == 2

\* the numbers a body's trades_7d and trades_30d hold; <<>> is a missing field
TradeCounts == {<<>>, <<0>>, <<5>>}

\* what response.json() resolves to, or "invalid" when it rejects
Bodies ==
    {[kind |-> "invalid"], [kind |-> "null"]}
    \cup {[kind |-> "object", success |-> s, data |-> <<>>] : s \in BOOLEAN}
    \cup {[kind |-> "object", success |-> s,
           data |-> <<[trades_7d |-> a, trades_30d |-> b]>>] :
             s \in BOOLEAN, a \in TradeCounts, b \in TradeCounts}

Responses ==
    {[ok |-> FALSE, body |-> [kind |-> "invalid"]]}
    \cup {[ok |-> TRUE, body |-> b] : b \in Bodies}

\* v || 0 of a number or a missing field
OrZeroNumber(v) == IF v = <<>> \/ v = <<0>> THEN 0 ELSE v[1]

\* data.success && data.data
HasData(body) == body.kind = "object" /\ body.success /\ body.data # <<>>

isLoading == trades7d = <<>> \/ trades30d = <<>>

InFlight(poll) == poll.pc \in {"fetch", "json"}

\* the calls still in flight, in the order they were made
Running == SelectSeq(polls, InFlight)

Settled(outcome) == [pc |-> "settled", outcome |-> outcome]

\* useEffect on mount: fetchStats() is called, setInterval(fetchStats, 60000)
LsMount ==
    /\ ~mounted
    /\ polls = <<>>
    /\ mounted' = TRUE
    /\ polls' = <<[pc |-> "fetch"]>>
    /\ UNCHANGED <<clock_vars, ct_vars, rt_vars, log, rd_vars, http_vars, bf_vars, ac_vars,
                   trades7d, trades30d>>

\* the interval fires: fetchStats() is called again
LsInterval ==
    /\ mounted
    /\ Len(Running) < MaxPolls
    /\ polls' = Append(Running, [pc |-> "fetch"])
    /\ UNCHANGED <<clock_vars, ct_vars, rt_vars, log, rd_vars, http_vars, bf_vars, ac_vars,
                   trades7d, trades30d, mounted>>

\* LsFetchThrows with a catch block that falls back to the loading state
LsFetchThrowsClears(i) ==
    /\ i \in DOMAIN polls
    /\ polls[i].pc = "fetch"
    /\ polls' = [polls EXCEPT ![i] = Settled("caught")]
    /\ trades7d' = <<>>
    /\ trades30d' = <<>>
    /\ UNCHANGED <<clock_vars, ct_vars, rt_vars, log, rd_vars, http_vars, bf_vars, ac_vars, mounted>>

\* fetch(apiUrl) rejects: the catch block calls console.error
LsFetchThrows(i) ==
    /\ i \in DOMAIN polls
    /\ polls[i].pc = "fetch"
    /\ polls' = [polls EXCEPT ![i] = Settled("caught")]
    /\ UNCHANGED <<clock_vars, ct_vars, rt_vars, log, rd_vars, http_vars, bf_vars, ac_vars,
                   trades7d, trades30d, mounted>>

\* fetch(apiUrl) resolves: response.json() is awaited when response.ok
LsResponse(i, response) ==
    /\ i \in DOMAIN polls
    /\ polls[i].pc = "fetch"
    /\ polls' = [polls EXCEPT ![i] = IF response.ok
                                     THEN [pc |-> "json", body |-> response.body]
                                     ELSE Settled("skipped")]
    /\ UNCHANGED <<clock_vars, ct_vars, rt_vars, log, rd_vars, http_vars, bf_vars, ac_vars,
                   trades7d, trades30d, mounted>>

\* response.json() settles: a rejection, or a body that is null, goes to the
\* catch block; a body with success and data sets both numbers
LsJson(i) ==
    /\ i \in DOMAIN polls
    /\ polls[i].pc = "json"
    /\ LET body == polls[i].body
       IN  IF body.kind \in {"invalid", "null"}
           THEN /\ polls' = [polls EXCEPT ![i] = Settled("caught")]
                /\ UNCHANGED <<trades7d, trades30d>>
           ELSE IF HasData(body)
           THEN /\ trades7d' = <<OrZeroNumber(body.data[1].trades_7d)>>
                /\ trades30d' = <<OrZeroNumber(body.data[1].trades_30d)>>
                /\ polls' = [polls EXCEPT ![i] = Settled("set")]
           ELSE /\ polls' = [polls EXCEPT ![i] = Settled("skipped")]
                /\ UNCHANGED <<trades7d, trades30d>>
    /\ UNCHANGED <<clock_vars, ct_vars, rt_vars, log, rd_vars, http_vars, bf_vars, ac_vars, mounted>>

\* the component unmounts: the effect's cleanup calls clearInterval; the
\* fetchStats calls in flight go on
LsUnmount ==
    /\ mounted
    /\ mounted' = FALSE
    /\ UNCHANGED <<clock_vars, ct_vars, rt_vars, log, rd_vars, http_vars, bf_vars, ac_vars,
                   trades7d, trades30d, polls>>

NextLive ==
    \/ LsMount
    \/ LsInterval
    \/ LsUnmount
    \/ \E i \in 1..MaxPolls : LsFetchThrows(i)
    \/ \E i \in 1..MaxPolls : \E response \in Responses : LsResponse(i, response)
    \/ \E i \in 1..MaxPolls : LsJson(i)

SpecLive == Init /\ [][NextLive]_vars

\* a call settles in this step without having set the numbers
PollFails ==
    \E i \in DOMAIN polls :
        /\ InFlight(polls[i])
        /\ i \in DOMAIN polls'
        /\ polls'[i] \in {Settled("caught"), Settled("skipped")}

\* C20: a poll that fails (fetch throws, response not ok, body that cannot be
\* read, body with success false or without data) leaves trades7d and
\* trades30d as they were; the widget leaves its loading state only by a poll
\* that set the numbers and never returns to it; trades7d and trades30d are
\* both null or both numbers
C20_DegradesGracefully ==
    /\ [](trades7d = <<>> <=> trades30d = <<>>)
    /\ [][PollFails => (trades7d' = trades7d /\ trades30d' = trades30d)]_vars
    /\ [][(isLoading /\ ~isLoading') =>
            \E i \in DOMAIN polls : polls[i].pc = "json" /\ HasData(polls[i].body)
                                    /\ polls'[i] = Settled("set")]_vars
    /\ [][~isLoading => ~isLoading']_vars

\* the numbers are shown and the one call made since then has failed
C20_Witness ==
    /\ trades7d = <<5>>
    /\ trades30d = <<0>>
    /\ polls = <<Settled("caught")>>

\* call i sets the numbers in this step
PollSets(i) ==
    /\ i \in DOMAIN polls
    /\ polls[i].pc = "json"
    /\ i \in DOMAIN polls'
    /\ polls'[i] = Settled("set")

\* a call made after call i has already set the numbers
NewerHasSet(i) ==
    \E j \in DOMAIN polls : j > i /\ polls[j] = Settled("set")

\* C22: while the component is mounted, the response of an older fetchStats
\* call that arrives after a newer call has set trades7d and trades30d does
\* not overwrite them: the numbers stay those of the call started last
C22_NoStaleOverwrite ==
    [][\A i \in 1..MaxPolls :
          (mounted /\ PollSets(i) /\ NewerHasSet(i)) =>
              (trades7d' = trades7d /\ trades30d' = trades30d)]_vars

----------------------------------------------------------------------------
(* src/components/interactive/LiveStats.tsx: AnimatedCounter.
   Time is counted in frames FrameMs apart. An animation is
   [kind, startValue, value, elapsed, frames]: `value` is the value prop its
   closure holds, elapsed the frames it has run, frames the frames it lasts.
   Animations of one length that started between the same two frames end in
   the same frame; callbacks run in the order they were requested. *)

\* changes of the value prop that are followed
MaxChanges == 3

\* the numbers the value prop takes
CounterValues == {0, 5, 12}

\* the time between two frames that are followed
FrameMs == 400

\* duration = 2000
duration == 2000

\* const animDuration = 800
animDuration == 800

Animation(kind, startValue, value, frames) ==
    [kind |-> kind, startValue |-> startValue, value |-> value,
     elapsed |-> 0, frames |-> frames]

\* Math.min(elapsed / duration, 1) of animation a as the fraction n / d
ProgressNum(a) == IF a.elapsed < a.frames THEN a.elapsed ELSE a.frames

\* Math.floor(startValue + (value - startValue) * easeOut) with
\* easeOut = 1 - Math.pow(1 - progress, 3); the initial animation has startValue 0
FrameCount(a) ==
    LET d == a.frames
        n == ProgressNum(a)
        num == d * d * d - (d - n) * (d - n) * (d - n)
    IN  a.startValue + ((a.value - a.startValue) * num) \div (d * d * d)

\* the second effect, run after a render in which value, hasAnimated or
\* prevValue changed: an animation from prevValue to value is started
ValueEffect(c) ==
    IF c.hasAnimated /\ c.value # c.prevValue
    THEN [c EXCEPT !.anims = Append(@, Animation("change", c.prevValue, c.value,
                                                 animDuration \div FrameMs))]
    ELSE c

\* the first effect, run on mount and after hasAnimated changed: a new observer
\* whose callback closes over the value and hasAnimated of this render
ObserverEffect(c) ==
    [c EXCEPT !.observer = [value |-> c.value, hasAnimated |-> c.hasAnimated]]

\* AnimatedCounter is rendered for the first time with value v
AcMount(v) ==
    /\ ~ac.rendered
    /\ ac' = ObserverEffect([NoCounter EXCEPT !.rendered = TRUE, !.value = v,
                                              !.prevValue = v])
    /\ UNCHANGED <<clock_vars, ct_vars, rt_vars, log, rd_vars, http_vars, bf_vars, ls_vars>>

\* the value prop changes (period toggle, poll update): only the second effect
\* has value among its dependencies
AcSetValue(v) ==
    /\ ac.rendered
    /\ v # ac.value
    /\ ac.changes < MaxChanges
    /\ ac' = ValueEffect([ac EXCEPT !.value = v, !.changes = @ + 1])
    /\ UNCHANGED <<clock_vars, ct_vars, rt_vars, log, rd_vars, http_vars, bf_vars, ls_vars>>

\* the observer's callback with isIntersecting and hasAnimated false in its
\* closure: setHasAnimated(true), the initial animation towards the closure's
\* value is requested; after the render both effects run
AcIntersect ==
    /\ ac.rendered
    /\ ~ac.observer.hasAnimated
    /\ LET seen == [ac EXCEPT !.hasAnimated = TRUE,
                              !.anims = Append(@, Animation("initial", 0, ac.observer.value,
                                                            duration \div FrameMs))]
       IN  ac' = ValueEffect(ObserverEffect(seen))
    /\ UNCHANGED <<clock_vars, ct_vars, rt_vars, log, rd_vars, http_vars, bf_vars, ls_vars>>

RECURSIVE RunFrame(_, _, _)
\* the callbacks of one frame, in the order they were requested: each calls
\* setCount; one with progress < 1 requests the next frame, a "change" one
\* with progress 1 calls setPrevValue(value)
RunFrame(c, pending, i) ==
    IF i > Len(pending) THEN c
    ELSE LET a == [pending[i] EXCEPT !.elapsed = @ + 1]
             counted == [c EXCEPT !.count = FrameCount(a)]
         IN  IF a.elapsed < a.frames
             THEN RunFrame([counted EXCEPT !.anims = Append(@, a)], pending, i + 1)
             ELSE IF a.kind = "change"
             THEN RunFrame([counted EXCEPT !.prevValue = a.value], pending, i + 1)
             ELSE RunFrame(counted, pending, i + 1)

\* a frame: the requested callbacks run, then the component renders and the
\* second effect runs if prevValue changed
AcFrame ==
    /\ ac.rendered
    /\ ac.anims # <<>>
    /\ LET after == RunFrame([ac EXCEPT !.anims = <<>>], ac.anims, 1)
       IN  ac' = IF after.prevValue # ac.prevValue THEN ValueEffect(after) ELSE after
    /\ UNCHANGED <<clock_vars, ct_vars, rt_vars, log, rd_vars, http_vars, bf_vars, ls_vars>>

NextCounter ==
    \/ \E v \in CounterValues : AcMount(v)
    \/ \E v \in CounterValues : AcSetValue(v)
    \/ AcIntersect
    \/ AcFrame

SpecCounter == Init /\ [][NextCounter]_vars

\* C21: once the element has been seen and no animation frame is requested
\* any more, the displayed count is the value prop, whatever changes of value
\* happened before, during or after the initial animation
C21_CounterConverges ==
    (ac.hasAnimated /\ ac.anims = <<>>) => ac.count = ac.value

=============================================================================
